---- MODULE Spec2Model ----
(***************************************************************************)
(* Model of parse_metrics.py: the session builder (build_debug_sessions)   *)
(* and the session interpreter (process_session).                          *)
(*                                                                         *)
(* An event is a record [timestamp, uid, svc, body]: uid and svc are the   *)
(* values of resources_string.get("user.id", "") and                       *)
(* resources_string.get("service.name", ""), "" when the key is absent.    *)
(* A body is a record [head, action, params]: head is the leading text of  *)
(* the log line, action the first token after "[activity]" ("" when there  *)
(* is none) and params the sequence of key=value fragments that follow, in *)
(* the order they are written.  The adapter session id (session.id) is     *)
(* copied into the session and never read again; it is left out.           *)
(***************************************************************************)
EXTENDS Integers, Sequences, FiniteSets, TLC

\* ------------------------------------------------------------------ bounds
MaxEvents == 3
MaxTs == 2
MaxLen == 2
MaxRuns == 2
MaxBatch == 5

\* float("inf"): greater than every timestamp of the model
Inf == MaxTs + 1

Min(a, b) == IF a <= b THEN a ELSE b

\* ------------------------------------------------------------ event bodies
ActivityHead == "[activity]"
InitHead == "[OTel] Debugger Adapter initialized"
ApiStoppedHead == "API server stopped"

Body(head, action, params) == [head |-> head, action |-> action, params |-> params]
Activity(action, params) == Body(ActivityHead, action, params)

InitBody == Body(InitHead, "", <<>>)
ApiStoppedBody == Body(ApiStoppedHead, "", <<>>)
SessionStoppedBody == Activity("debug_session_stopped", <<>>)

Event(ts, uid, svc, body) == [timestamp |-> ts, uid |-> uid, svc |-> svc, body |-> body]

\* ------------------------------------------------------------ DebugSession
DebugSession(uid, start, end, evs) ==
  [user_id |-> uid, start_ts |-> start, end_ts |-> end, events |-> evs,
   step_count |-> 0, breakpoint_ops |-> 0, frame_switches |-> 0,
   dbt_frame_switches |-> 0, pause_count |-> 0, continue_count |-> 0,
   jump_count |-> 0, signal_count |-> 0, variable_examinations |-> 0,
   unique_sessions_viewed |-> {},
   step_durations |-> <<>>, pause_durations |-> <<>>,
   in_stepping |-> FALSE, last_step_ts |-> 0,
   is_paused |-> FALSE, last_pause_ts |-> 0]

\* ------------------------------------------------------------- list.sort
\* list.sort(key=timestamp) is stable: equal timestamps keep their order.
RECURSIVE InsertByTs(_, _)
InsertByTs(e, sorted) ==
  IF sorted = <<>> THEN <<e>>
  ELSE IF sorted[Len(sorted)].timestamp <= e.timestamp THEN Append(sorted, e)
  ELSE Append(InsertByTs(e, SubSeq(sorted, 1, Len(sorted) - 1)), sorted[Len(sorted)])

\* SortByTs with the sort left out: the events stay in the order given
SortByTs_Unsorted(s) == s

RECURSIVE SortByTs(_)
SortByTs(s) ==
  IF s = <<>> THEN <<>>
  ELSE InsertByTs(s[Len(s)], SortByTs(SubSeq(s, 1, Len(s) - 1)))

\* --------------------------------------------------- build_debug_sessions
\* the keys of user_events, in insertion order
RECURSIVE UserOrder(_)
UserOrder(evs) ==
  IF evs = <<>> THEN <<>>
  ELSE LET rest == UserOrder(SubSeq(evs, 1, Len(evs) - 1))
           uid == evs[Len(evs)].uid
       IN IF uid = "" \/ \E k \in 1..Len(rest) : rest[k] = uid THEN rest
          ELSE Append(rest, uid)

\* user_events[uid]
UserEvents(evs, uid) == SelectSeq(evs, LAMBDA e : e.uid = uid)

IsInit(ev) == ev.svc = "ddb-da" /\ ev.body.head = InitHead

IsStop(ev) ==
  \/ ev.svc = "ddb-ext" /\ ev.body = SessionStoppedBody
  \/ ev.svc = "ddb" /\ ev.body = ApiStoppedBody

\* DaInits taking the stop markers as openers too
DaInits_WithStops(evs) == SelectSeq(evs, LAMBDA e : IsInit(e) \/ IsStop(e))

DaInits(evs) == SelectSeq(evs, LAMBDA e : IsInit(e))

StopEvents(evs) == SortByTs(SelectSeq(evs, LAMBDA e : ~IsInit(e) /\ IsStop(e)))

\* NextInitTs one marker too far
NextInitTs_Off(inits, i) == IF i + 2 < Len(inits) THEN inits[i + 3].timestamp ELSE Inf

NextInitTs(inits, i) == IF i + 1 < Len(inits) THEN inits[i + 2].timestamp ELSE Inf

\* ScanStops with < for >: the scan passes the stop markers after the init
RECURSIVE ScanStops_Inverted(_, _, _)
ScanStops_Inverted(stops, idx, init_ts) ==
  IF idx < Len(stops) /\ ~(stops[idx + 1].timestamp < init_ts)
  THEN ScanStops_Inverted(stops, idx + 1, init_ts)
  ELSE idx

\* ScanStops with >= for >: a stop marker at the init's own timestamp is taken
RECURSIVE ScanStops_AtOrAfter(_, _, _)
ScanStops_AtOrAfter(stops, idx, init_ts) ==
  IF idx < Len(stops) /\ ~(stops[idx + 1].timestamp >= init_ts)
  THEN ScanStops_AtOrAfter(stops, idx + 1, init_ts)
  ELSE idx

\* the while loop: stop_idx on leaving it (0-based, as in the code)
RECURSIVE ScanStops(_, _, _)
ScanStops(stops, idx, init_ts) ==
  IF idx < Len(stops) /\ ~(stops[idx + 1].timestamp > init_ts)
  THEN ScanStops(stops, idx + 1, init_ts)
  ELSE idx

\* NextStopTs reading the first stop marker instead of the one at the scan position
NextStopTs_First(stops, idx) == IF idx < Len(stops) THEN stops[1].timestamp ELSE Inf

NextStopTs(stops, idx) == IF idx < Len(stops) THEN stops[idx + 1].timestamp ELSE Inf

\* ConsumesStop with < for <=: on a tie the next init wins
ConsumesStop_Strict(next_stop_ts, next_init_ts) ==
  next_stop_ts < next_init_ts /\ next_stop_ts # Inf

ConsumesStop(next_stop_ts, next_init_ts) ==
  next_stop_ts <= next_init_ts /\ next_stop_ts # Inf

\* EndTs falling back to the user's first event instead of the last
EndTs_First(end_candidate, evs) ==
  IF end_candidate # Inf THEN end_candidate ELSE evs[1].timestamp

EndTs(end_candidate, evs) ==
  IF end_candidate # Inf THEN end_candidate ELSE evs[Len(evs)].timestamp

\* Attached without the window: every event of the user is attached
Attached_Unbounded(evs, init_ts, end_ts) == evs

\* Attached with the end of the window left out
Attached_Exclusive(evs, init_ts, end_ts) ==
  SelectSeq(evs, LAMBDA e : init_ts <= e.timestamp /\ e.timestamp < end_ts)

Attached(evs, init_ts, end_ts) ==
  SelectSeq(evs, LAMBDA e : init_ts <= e.timestamp /\ e.timestamp <= end_ts)

\* -------------------------------------------------------- parse_activity
\* the params dict: a later key=value fragment overrides an earlier one
ParamsDict(pairs) ==
  [k \in {pairs[n][1] : n \in 1..Len(pairs)} |->
     LET last == CHOOSE n \in 1..Len(pairs) :
                   /\ pairs[n][1] = k
                   /\ \A m \in (n + 1)..Len(pairs) : pairs[m][1] # k
     IN pairs[last][2]]

EmptyDict == ParamsDict(<<>>)

parse_activity(body) ==
  IF body.head = ActivityHead /\ body.action # ""
  THEN [action |-> body.action, params |-> ParamsDict(body.params)]
  ELSE [action |-> "", params |-> EmptyDict]

\* params.get(key, default)
Get(params, key, default) == IF key \in DOMAIN params THEN params[key] ELSE default

\* -------------------------------------------------------- process_session
StepActions == {"step_over", "step_in", "step_out"}
StepEndReasons == {"end-stepping-range", "function-finished"}
JumpActions == {"reverse_continue", "step_back"}

\* TrackSession without the test for the "undefined" sentinel
TrackSession_KeepUndefined(s, params) ==
  LET sess_num == Get(params, "session", "")
  IN IF sess_num # ""
     THEN [s EXCEPT !.unique_sessions_viewed = @ \cup {sess_num}]
     ELSE s

TrackSession(s, params) ==
  LET sess_num == Get(params, "session", "")
  IN IF sess_num # "" /\ sess_num # "undefined"
     THEN [s EXCEPT !.unique_sessions_viewed = @ \cup {sess_num}]
     ELSE s

\* StepOp restarting the stepping interval at every step action
StepOp_Restart(s, action, ts) ==
  IF action \in StepActions
  THEN [s EXCEPT !.step_count = @ + 1, !.in_stepping = TRUE, !.last_step_ts = ts]
  ELSE s

StepOp(s, action, ts) ==
  IF action \in StepActions
  THEN LET s1 == [s EXCEPT !.step_count = @ + 1]
       IN IF ~s1.in_stepping
          THEN [s1 EXCEPT !.in_stepping = TRUE, !.last_step_ts = ts]
          ELSE s1
  ELSE s

\* StopOp without the test that a stepping interval is open
StopOp_NoSteppingTest(s, action, svc, params, ts) ==
  IF action = "stop" /\ svc = "ddb-da"
  THEN LET reason == Get(params, "reason", "")
           s1 == IF reason \in StepEndReasons
                 THEN [s EXCEPT !.step_durations = Append(@, ts - s.last_step_ts),
                                !.in_stepping = FALSE]
                 ELSE s
       IN IF ~s1.is_paused
          THEN [s1 EXCEPT !.is_paused = TRUE, !.last_pause_ts = ts]
          ELSE s1
  ELSE s

\* StopOp closing the stepping interval whatever the reason
StopOp_AnyReason(s, action, svc, params, ts) ==
  IF action = "stop" /\ svc = "ddb-da"
  THEN LET s1 == IF s.in_stepping
                 THEN [s EXCEPT !.step_durations = Append(@, ts - s.last_step_ts),
                                !.in_stepping = FALSE]
                 ELSE s
       IN IF ~s1.is_paused
          THEN [s1 EXCEPT !.is_paused = TRUE, !.last_pause_ts = ts]
          ELSE s1
  ELSE s

StopOp(s, action, svc, params, ts) ==
  IF action = "stop" /\ svc = "ddb-da"
  THEN LET reason == Get(params, "reason", "")
           s1 == IF reason \in StepEndReasons /\ s.in_stepping
                 THEN [s EXCEPT !.step_durations = Append(@, ts - s.last_step_ts),
                                !.in_stepping = FALSE]
                 ELSE s
       IN IF ~s1.is_paused
          THEN [s1 EXCEPT !.is_paused = TRUE, !.last_pause_ts = ts]
          ELSE s1
  ELSE s

\* ContinueOp without the service test
ContinueOp_AnyService(s, action, svc, ts) ==
  IF action = "continue"
  THEN LET s1 == IF s.is_paused
                 THEN [s EXCEPT !.pause_durations = Append(@, ts - s.last_pause_ts),
                                !.is_paused = FALSE]
                 ELSE s
       IN [s1 EXCEPT !.continue_count = @ + 1]
  ELSE s

ContinueOp(s, action, svc, ts) ==
  IF action = "continue" /\ svc = "ddb-da"
  THEN LET s1 == IF s.is_paused
                 THEN [s EXCEPT !.pause_durations = Append(@, ts - s.last_pause_ts),
                                !.is_paused = FALSE]
                 ELSE s
       IN [s1 EXCEPT !.continue_count = @ + 1]
  ELSE s

StepResume(s, action, ts) ==
  IF action \in StepActions /\ s.is_paused
  THEN [s EXCEPT !.pause_durations = Append(@, ts - s.last_pause_ts),
                 !.is_paused = FALSE]
  ELSE s

BreakpointOp(s, action) ==
  IF action = "set_breakpoints" THEN [s EXCEPT !.breakpoint_ops = @ + 1] ELSE s

SelectFrameOp(s, action, params) ==
  IF action = "select_frame"
  THEN LET s1 == [s EXCEPT !.frame_switches = @ + 1]
       IN IF Get(params, "after_boundary", "false") = "true"
          THEN [s1 EXCEPT !.dbt_frame_switches = @ + 1]
          ELSE s1
  ELSE s

\* PauseOp opening a pause interval as well
PauseOp_OpensInterval(s, action) ==
  IF action = "pause"
  THEN [s EXCEPT !.pause_count = @ + 1, !.is_paused = TRUE]
  ELSE s

PauseOp(s, action) ==
  IF action = "pause" THEN [s EXCEPT !.pause_count = @ + 1] ELSE s

\* JumpOp counting every action that is neither reverse_continue nor step_back
JumpOp_Inverted(s, action) ==
  IF action \notin JumpActions THEN [s EXCEPT !.jump_count = @ + 1] ELSE s

JumpOp(s, action) ==
  IF action \in JumpActions THEN [s EXCEPT !.jump_count = @ + 1] ELSE s

ExamineOp(s, action) ==
  IF action \in {"expand_variable", "evaluate"}
  THEN [s EXCEPT !.variable_examinations = @ + 1]
  ELSE s

\* one iteration of the loop over session.events
HandleEvent(s, ev) ==
  LET parsed == parse_activity(ev.body)
      action == parsed.action
      params == parsed.params
      svc == ev.svc
      ts == ev.timestamp
      s1 == TrackSession(s, params)
      s2 == StepOp(s1, action, ts)
      s3 == StopOp(s2, action, svc, params, ts)
      s4 == ContinueOp(s3, action, svc, ts)
      s5 == StepResume(s4, action, ts)
      s6 == BreakpointOp(s5, action)
      s7 == SelectFrameOp(s6, action, params)
      s8 == PauseOp(s7, action)
      s9 == JumpOp(s8, action)
  IN IF action = "" THEN s ELSE ExamineOp(s9, action)

RECURSIVE HandleAll(_, _, _)
HandleAll(s, evs, k) ==
  IF k > Len(evs) THEN s ELSE HandleAll(HandleEvent(s, evs[k]), evs, k + 1)

\* the whole of process_session, on session s
ProcessSession(s) ==
  LET sorted == SortByTs(s.events)
  IN HandleAll([s EXCEPT !.events = sorted], sorted, 1)

\* ------------------------------------------------------------------ inputs
Timestamps == 0..MaxTs

\* (user.id, service.name, body) of the events of a batch given to
\* build_debug_sessions
BatchKinds ==
  { <<"u1", "ddb-da", InitBody>>,
    <<"u1", "ddb-ext", SessionStoppedBody>>,
    <<"u1", "ddb-da", Activity("step_over", <<>>)>>,
    <<"u2", "ddb-da", InitBody>>,
    <<"u2", "ddb", ApiStoppedBody>>,
    <<"", "ddb-da", InitBody>> }

BatchEvents ==
  { Event(ts, k[1], k[2], k[3]) : ts \in Timestamps, k \in BatchKinds }

\* (service.name, body) of the events of a session given to process_session
SessionKinds ==
  { <<"ddb-da", Activity("step_over", <<>>)>>,
    <<"ddb-ext", Activity("step_in", <<<<"session", "3">>>>)>>,
    <<"ddb-da", Activity("stop", <<<<"reason", "end-stepping-range">>>>)>>,
    <<"ddb-da", Activity("stop", <<<<"reason", "function-finished">>>>)>>,
    <<"ddb-da", Activity("stop", <<<<"reason", "breakpoint-hit">>>>)>>,
    <<"ddb-ext", Activity("stop", <<<<"reason", "end-stepping-range">>>>)>>,
    <<"ddb-da", Activity("continue", <<>>)>>,
    <<"ddb-ext", Activity("continue", <<>>)>>,
    <<"ddb-da", Activity("pause", <<>>)>>,
    <<"ddb-ext", Activity("select_frame", <<<<"after_boundary", "true">>, <<"session", "7">>>>)>>,
    <<"ddb-da", Activity("evaluate", <<<<"session", "undefined">>>>)>>,
    <<"ddb-da", Activity("set_breakpoints", <<>>)>>,
    <<"ddb-da", Activity("step_back", <<>>)>>,
    <<"ddb-da", InitBody>>,
    <<"ddb", ApiStoppedBody>>,
    <<"ddb-ext", SessionStoppedBody>> }

SessionEvents ==
  { Event(ts, "u1", k[1], k[2]) : ts \in Timestamps, k \in SessionKinds }

SeqsUpTo(S, n) == UNION { [1..m -> S] : m \in 0..n }

\* ------------------------------------------------------------------- state
VARIABLES
  events,       \* the batch given to build_debug_sessions
  bpc,          \* position in build_debug_sessions
  user_order,   \* keys of user_events, in insertion order
  u,            \* index in user_order of the user being scanned
  evs,          \* that user's events, sorted
  da_inits,     \* that user's initialization markers
  stop_events,  \* that user's stop markers
  i,            \* index of the next initialization marker (0-based)
  stop_idx,     \* scan position in stop_events (0-based)
  used_stop,    \* per init of this user handled so far: 1 + the index of the
                \* stop marker taken as its end boundary, 0 when none was
  sessions,     \* the sessions built
  ppc,          \* position in process_session
  cur,          \* index in sessions of the session being processed
  pos,          \* index in its events of the next event to handle
  runs,         \* calls of process_session completed on sessions[cur]
  before,       \* the session as it was before the last event handled
  first_run     \* the session as it was when the first call returned

vars == <<events, bpc, user_order, u, evs, da_inits, stop_events, i, stop_idx,
          used_stop, sessions, ppc, cur, pos, runs, before, first_run>>

builder_vars == <<events, bpc, user_order, u, evs, da_inits, stop_events, i,
                  stop_idx, used_stop>>
interp_vars == <<ppc, cur, pos, runs, before, first_run>>

NoSession == DebugSession("", 0, 0, <<>>)

Init ==
  /\ events \in SeqsUpTo(BatchEvents, MaxEvents)
  /\ bpc = "group"
  /\ user_order = <<>>
  /\ u = 0
  /\ evs = <<>>
  /\ da_inits = <<>>
  /\ stop_events = <<>>
  /\ i = 0
  /\ stop_idx = 0
  /\ used_stop = <<>>
  /\ sessions = <<>>
  /\ ppc = "idle"
  /\ cur = 0
  /\ pos = 0
  /\ runs = 0
  /\ before = NoSession
  /\ first_run = NoSession

\* ---------------------------------------------- build_debug_sessions steps
\* lines 93-99: group the events by user.id
GroupEvents ==
  /\ bpc = "group"
  /\ user_order' = UserOrder(events)
  /\ u' = 1
  /\ sessions' = <<>>
  /\ bpc' = "users"
  /\ UNCHANGED <<events, evs, da_inits, stop_events, i, stop_idx, used_stop>>
  /\ UNCHANGED interp_vars

\* lines 101-118: take the next user, sort, collect the markers
ScanUser ==
  /\ bpc = "users"
  /\ u <= Len(user_order)
  /\ LET sorted == SortByTs(UserEvents(events, user_order[u]))
     IN /\ evs' = sorted
        /\ da_inits' = DaInits(sorted)
        /\ stop_events' = StopEvents(sorted)
        /\ IF DaInits(sorted) = <<>>
           THEN bpc' = "users" /\ u' = u + 1
           ELSE bpc' = "inits" /\ u' = u
  /\ i' = 0
  /\ stop_idx' = 0
  /\ used_stop' = <<>>
  /\ UNCHANGED <<events, user_order, sessions>>
  /\ UNCHANGED interp_vars

\* lines 119-143: one initialization marker, one session
InitStep ==
  /\ bpc = "inits"
  /\ i < Len(da_inits)
  /\ LET init_ts == da_inits[i + 1].timestamp
         next_init_ts == NextInitTs(da_inits, i)
         idx == ScanStops(stop_events, stop_idx, init_ts)
         next_stop_ts == NextStopTs(stop_events, idx)
         end_candidate == Min(next_init_ts, next_stop_ts)
         consumes == ConsumesStop(next_stop_ts, next_init_ts)
         end_ts == EndTs(end_candidate, evs)
     IN /\ stop_idx' = IF consumes THEN idx + 1 ELSE idx
        /\ used_stop' = Append(used_stop, IF consumes THEN idx + 1 ELSE 0)
        /\ sessions' = Append(sessions,
              DebugSession(user_order[u], init_ts, end_ts, Attached(evs, init_ts, end_ts)))
  /\ i' = i + 1
  /\ IF i + 1 < Len(da_inits)
     THEN bpc' = "inits" /\ u' = u
     ELSE bpc' = "users" /\ u' = u + 1
  /\ UNCHANGED <<events, user_order, evs, da_inits, stop_events>>
  /\ UNCHANGED interp_vars

\* line 145
Return ==
  /\ bpc = "users"
  /\ u > Len(user_order)
  /\ bpc' = "returned"
  /\ UNCHANGED <<events, user_order, u, evs, da_inits, stop_events, i, stop_idx,
                 used_stop, sessions>>
  /\ UNCHANGED interp_vars

Next == GroupEvents \/ ScanUser \/ InitStep \/ Return

Spec == Init /\ [][Next]_vars

\* --------------------------------------------------- process_session steps
\* a session handed to process_session with its events in any order
InitInterp ==
  /\ events = <<>>
  /\ bpc = "returned"
  /\ user_order = <<>>
  /\ u = 1
  /\ evs = <<>>
  /\ da_inits = <<>>
  /\ stop_events = <<>>
  /\ i = 0
  /\ stop_idx = 0
  /\ used_stop = <<>>
  /\ \E l \in SeqsUpTo(SessionEvents, MaxLen) :
        sessions = <<DebugSession("u1", 0, MaxTs, l)>>
  /\ ppc = "idle"
  /\ cur = 1
  /\ pos = 0
  /\ runs = 0
  /\ before = NoSession
  /\ first_run = NoSession

\* line 151: the call, and the sort of session.events
ProcessStart ==
  /\ bpc = "returned"
  /\ ppc = "idle"
  /\ cur \in 1..Len(sessions)
  /\ runs < MaxRuns
  /\ sessions' = [sessions EXCEPT ![cur].events = SortByTs(@)]
  /\ pos' = 1
  /\ ppc' = "loop"
  /\ UNCHANGED <<cur, runs, before, first_run>>
  /\ UNCHANGED builder_vars

\* lines 153-220: one event
ProcessEvent ==
  /\ ppc = "loop"
  /\ pos <= Len(sessions[cur].events)
  /\ before' = sessions[cur]
  /\ sessions' = [sessions EXCEPT ![cur] = HandleEvent(@, @.events[pos])]
  /\ pos' = pos + 1
  /\ UNCHANGED <<ppc, cur, runs, first_run>>
  /\ UNCHANGED builder_vars

\* the loop is over: process_session returns
ProcessReturn ==
  /\ ppc = "loop"
  /\ pos > Len(sessions[cur].events)
  /\ ppc' = "idle"
  /\ runs' = runs + 1
  /\ first_run' = IF runs = 0 THEN sessions[cur] ELSE first_run
  /\ UNCHANGED <<cur, pos, before, sessions>>
  /\ UNCHANGED builder_vars

NextInterp == ProcessStart \/ ProcessEvent \/ ProcessReturn

SpecInterp == InitInterp /\ [][NextInterp]_vars

\* ===================================================== build_debug_sessions
Count(seq, e) == Cardinality({k \in 1..Len(seq) : seq[k] = e})

SetMin(S) == CHOOSE x \in S : \A y \in S : x <= y

\* the session opened by the k-th initialization marker of the user being scanned
SessionOf(k) == sessions[Len(sessions) - Len(used_stop) + k]

\* the stop markers (1-based indices) taken as end boundary by sessions before the k-th
UsedBefore(k) == {used_stop[j] : j \in 1..(k - 1)} \ {0}

\* the timestamps of the stop markers not yet consumed and strictly after the
\* k-th init
OpenStops(k) ==
  {stop_events[n].timestamp : n \in {m \in 1..Len(stop_events) :
      /\ m \notin UsedBefore(k)
      /\ stop_events[m].timestamp > da_inits[k].timestamp}}

\* the boundaries open to the k-th init: the next init and those stop markers
Boundaries(k) ==
  (IF k < Len(da_inits) THEN {da_inits[k + 1].timestamp} ELSE {}) \cup OpenStops(k)

\* C1: the event lists of two sessions of one user are disjoint: no event of
\* the batch is attached to more sessions of its user than it occurs in the batch
C1_SessionsDisjoint ==
  \A a, b \in 1..Len(sessions) :
    (a < b /\ sessions[a].user_id = sessions[b].user_id)
      => \A e \in BatchEvents :
           Count(sessions[a].events, e) + Count(sessions[b].events, e) <= Count(events, e)

\* C5: the session opened by an init ends at the earlier of the next init and
\* the earliest not-yet-consumed stop marker strictly after the init; when
\* there is neither, at the user's last event
C5_EndBoundary ==
  \A k \in 1..Len(used_stop) :
    SessionOf(k).end_ts =
      IF Boundaries(k) # {} THEN SetMin(Boundaries(k)) ELSE evs[Len(evs)].timestamp

\* C5 witness: a first session ended by a stop marker that lies before the next
\* init, and a second, open session ending at the user's last event
C5_Witness ==
  /\ Len(used_stop) = 2
  /\ used_stop[1] # 0
  /\ SessionOf(1).end_ts < da_inits[2].timestamp
  /\ used_stop[2] = 0
  /\ SessionOf(2).end_ts = evs[Len(evs)].timestamp

\* C6: every session has start_ts <= end_ts
C6_StartBeforeEnd ==
  \A a \in 1..Len(sessions) : sessions[a].start_ts <= sessions[a].end_ts

\* C6 witness: two inits of one user with equal timestamps and a stop marker at
\* that same timestamp, all sessions built
C6_Witness ==
  /\ bpc = "returned"
  /\ Len(sessions) = 2
  /\ sessions[1].user_id = sessions[2].user_id
  /\ sessions[1].start_ts = sessions[2].start_ts
  /\ Len(stop_events) = 1
  /\ stop_events[1].timestamp = sessions[1].start_ts

\* C7: a stop marker is the end boundary of at most one session, and the scan
\* position is past every marker so used; when the earliest not-yet-consumed
\* stop marker after an init is at or before the next init, a tie included,
\* that marker, not the next init, ends the session
C7_StopConsumedOnce ==
  /\ \A j, k \in 1..Len(used_stop) :
       (j < k /\ used_stop[j] # 0) => used_stop[j] # used_stop[k]
  /\ \A k \in 1..Len(used_stop) :
       used_stop[k] # 0 =>
         /\ stop_idx >= used_stop[k]
         /\ SessionOf(k).end_ts = stop_events[used_stop[k]].timestamp
  /\ \A k \in 1..Len(used_stop) :
       (/\ k < Len(da_inits)
        /\ OpenStops(k) # {}
        /\ SetMin(OpenStops(k)) <= da_inits[k + 1].timestamp)
       => /\ used_stop[k] # 0
          /\ stop_events[used_stop[k]].timestamp = SetMin(OpenStops(k))

\* C7 witness: a stop marker at the second init's timestamp ended the first
\* session and the second session, already built, has no stop boundary
C7_Witness ==
  /\ Len(used_stop) = 2
  /\ used_stop[1] # 0
  /\ stop_events[used_stop[1]].timestamp = da_inits[2].timestamp
  /\ da_inits[1].timestamp < da_inits[2].timestamp
  /\ used_stop[2] = 0

\* ========================================================= process_session
Counters(s) ==
  <<s.step_count, s.breakpoint_ops, s.frame_switches, s.dbt_frame_switches,
    s.pause_count, s.continue_count, s.jump_count, s.variable_examinations>>

Durations(s) == <<s.step_durations, s.pause_durations>>

Stepping(s) == <<s.in_stepping, s.last_step_ts, s.step_durations>>

Pausing(s) == <<s.is_paused, s.last_pause_ts, s.pause_durations>>

\* an event has just been handled: Ev, on the session Before, giving After
Handled == ppc = "loop" /\ pos > 1
After == sessions[cur]
Ev == sessions[cur].events[pos - 1]
EvAction == parse_activity(Ev.body).action
EvParams == parse_activity(Ev.body).params

\* a call of process_session has returned
Returned(n) == ppc = "idle" /\ runs = n

\* C2: a stepping interval and a pause interval are never both open
C2_NeverBothOpen ==
  \A a \in 1..Len(sessions) : ~(sessions[a].in_stepping /\ sessions[a].is_paused)

\* C3: a second run of process_session on a populated session, its event list
\* unchanged, leaves the counters, unique_sessions_viewed and both duration
\* lists as the first run left them
C3_Idempotent ==
  Returned(2) =>
    /\ Counters(After) = Counters(first_run)
    /\ After.unique_sessions_viewed = first_run.unique_sessions_viewed
    /\ Durations(After) = Durations(first_run)

\* the permutations of a sequence
Perms(s) == { [k \in 1..Len(s) |-> s[f[k]]] : f \in Permutations(1..Len(s)) }

\* p and q list the events of each timestamp in the same order
SameTieOrder(p, q) ==
  \A ts \in Timestamps :
    SelectSeq(p, LAMBDA e : e.timestamp = ts) = SelectSeq(q, LAMBDA e : e.timestamp = ts)

Fresh(s, evts) == DebugSession(s.user_id, s.start_ts, s.end_ts, evts)

\* C4 as claimed: every permutation of the event list, ties included, gives the
\* counters and the duration lists of the run
C4_OrderInsensitive ==
  Returned(1) =>
    \A p \in Perms(After.events) :
      LET result == ProcessSession(Fresh(After, p))
      IN /\ Counters(result) = Counters(After)
         /\ Durations(result) = Durations(After)

\* C4 amended: every permutation gives the same counters; every permutation
\* that keeps events of equal timestamp in their relative order gives the same
\* duration lists
C4_OrderInsensitiveUpToTies ==
  Returned(1) =>
    \A p \in Perms(After.events) :
      LET result == ProcessSession(Fresh(After, p))
      IN /\ Counters(result) = Counters(After)
         /\ SameTieOrder(p, After.events) => Durations(result) = Durations(After)

\* C4 witness: a run over two events of different timestamps that closed a
\* pause interval, so that the order of handling shows in the durations
C4_Witness ==
  /\ Returned(1)
  /\ Len(After.events) = 2
  /\ After.events[1].timestamp < After.events[2].timestamp
  /\ After.pause_durations = <<After.events[2].timestamp - After.events[1].timestamp>>
  /\ After.continue_count = 1

\* C8: an adapter stop closes an open stepping interval when its reason is
\* end-stepping-range or function-finished, appending the time since it was
\* opened, and leaves it alone otherwise; it opens a pause interval at its
\* timestamp unless one is open; a stop of another service changes neither
C8_StopEffect ==
  (Handled /\ EvAction = "stop") =>
    IF Ev.svc = "ddb-da"
    THEN /\ IF /\ before.in_stepping
               /\ Get(EvParams, "reason", "") \in {"end-stepping-range", "function-finished"}
            THEN /\ ~After.in_stepping
                 /\ After.step_durations =
                      Append(before.step_durations, Ev.timestamp - before.last_step_ts)
            ELSE Stepping(After) = Stepping(before)
         /\ After.is_paused
         /\ After.last_pause_ts =
              IF before.is_paused THEN before.last_pause_ts ELSE Ev.timestamp
         /\ After.pause_durations = before.pause_durations
    ELSE Stepping(After) = Stepping(before) /\ Pausing(After) = Pausing(before)

\* C8 witness: an adapter stop with reason end-stepping-range has closed a
\* stepping interval opened earlier and opened a pause interval
C8_Witness ==
  /\ Handled
  /\ EvAction = "stop"
  /\ Ev.svc = "ddb-da"
  /\ Get(EvParams, "reason", "") = "end-stepping-range"
  /\ before.in_stepping
  /\ ~before.is_paused
  /\ After.step_durations = <<Ev.timestamp - before.last_step_ts>>
  /\ Ev.timestamp > before.last_step_ts
  /\ After.is_paused
  /\ After.last_pause_ts = Ev.timestamp

\* C9: a step action of any service adds one to step_count, opens a stepping
\* interval at its timestamp unless one is open, and closes an open pause
\* interval, appending the time since it was opened
C9_StepEffect ==
  (Handled /\ EvAction \in {"step_over", "step_in", "step_out"}) =>
    /\ After.step_count = before.step_count + 1
    /\ After.in_stepping
    /\ After.last_step_ts =
         IF before.in_stepping THEN before.last_step_ts ELSE Ev.timestamp
    /\ After.step_durations = before.step_durations
    /\ ~After.is_paused
    /\ After.pause_durations =
         IF before.is_paused
         THEN Append(before.pause_durations, Ev.timestamp - before.last_pause_ts)
         ELSE before.pause_durations

\* C9 witness: a step action of the extension, handled while a pause interval
\* was open, has closed it
C9_Witness ==
  /\ Handled
  /\ EvAction = "step_in"
  /\ Ev.svc = "ddb-ext"
  /\ before.is_paused
  /\ ~before.in_stepping
  /\ After.pause_durations = <<Ev.timestamp - before.last_pause_ts>>
  /\ Ev.timestamp > before.last_pause_ts

\* C10: an adapter continue adds one to continue_count and closes an open pause
\* interval, appending the time since it was opened, and leaves the stepping
\* interval alone; a continue of another service changes no counter or interval
C10_ContinueEffect ==
  (Handled /\ EvAction = "continue") =>
    IF Ev.svc = "ddb-da"
    THEN /\ After.continue_count = before.continue_count + 1
         /\ ~After.is_paused
         /\ After.pause_durations =
              IF before.is_paused
              THEN Append(before.pause_durations, Ev.timestamp - before.last_pause_ts)
              ELSE before.pause_durations
         /\ Stepping(After) = Stepping(before)
    ELSE /\ Counters(After) = Counters(before)
         /\ Stepping(After) = Stepping(before)
         /\ Pausing(After) = Pausing(before)

\* C10 witness: an adapter continue, handled while a pause interval was open,
\* has closed it
C10_Witness ==
  /\ Handled
  /\ EvAction = "continue"
  /\ Ev.svc = "ddb-da"
  /\ before.is_paused
  /\ After.pause_durations = <<Ev.timestamp - before.last_pause_ts>>
  /\ Ev.timestamp > before.last_pause_ts
  /\ After.continue_count = 1

\* the value of the session parameter written in an activity body: that of the
\* last session=... fragment, "" when there is none
SessionParam(body) ==
  LET at == {n \in 1..Len(body.params) : body.params[n][1] = "session"}
  IN IF body.head = ActivityHead /\ body.action # "" /\ at # {}
     THEN body.params[CHOOSE n \in at : \A m \in at : m <= n][2]
     ELSE ""

\* C11: after process_session, unique_sessions_viewed is the set of the session
\* parameter values other than "undefined" of the session's activity events,
\* whatever their action; an evaluate with session=undefined adds nothing to
\* the set and still counts as a variable examination
C11_SessionsViewed ==
  /\ (ppc = "idle" /\ runs >= 1) =>
       After.unique_sessions_viewed =
         {SessionParam(After.events[n].body) : n \in 1..Len(After.events)} \ {"", "undefined"}
  /\ (Handled /\ EvAction = "evaluate" /\ SessionParam(Ev.body) = "undefined") =>
       /\ After.unique_sessions_viewed = before.unique_sessions_viewed
       /\ After.variable_examinations = before.variable_examinations + 1

\* C11 witness: a run over a step action carrying session=3 and an evaluate
\* carrying session=undefined has returned with the set {"3"}
C11_Witness ==
  /\ Returned(1)
  /\ After.unique_sessions_viewed = {"3"}
  /\ After.step_count = 1
  /\ After.variable_examinations = 1
  /\ \E n \in 1..Len(After.events) : SessionParam(After.events[n].body) = "undefined"

\* an adapter-initialization marker, a stop marker, as the batch writes them
InitMarker(e) == e.svc = "ddb-da" /\ e.body.head = InitHead
StopMarker(e) ==
  \/ e.svc = "ddb-ext" /\ e.body = SessionStoppedBody
  \/ e.svc = "ddb" /\ e.body = ApiStoppedBody

BatchUsers == {events[n].uid : n \in 1..Len(events)}

\* C12: when build_debug_sessions returns, every user has as many sessions as
\* initialization markers: none without an init, whatever stop markers exist,
\* and none for events without a user identity
C12_SessionsPerInit ==
  bpc = "returned" =>
    /\ \A uid \in BatchUsers \ {""} :
         Cardinality({a \in 1..Len(sessions) : sessions[a].user_id = uid}) =
           Cardinality({n \in 1..Len(events) : events[n].uid = uid /\ InitMarker(events[n])})
    /\ \A a \in 1..Len(sessions) :
         /\ sessions[a].user_id \in BatchUsers \ {""}
         /\ \E n \in 1..Len(events) :
              /\ events[n].uid = sessions[a].user_id
              /\ InitMarker(events[n])
              /\ events[n].timestamp = sessions[a].start_ts

\* C12 witness: one session was built, for a user whose stop marker precedes
\* the init, while another user has a stop marker and no init
C12_Witness ==
  /\ bpc = "returned"
  /\ Len(sessions) = 1
  /\ \E n \in 1..Len(events) :
       /\ events[n].uid = sessions[1].user_id
       /\ StopMarker(events[n])
       /\ events[n].timestamp < sessions[1].start_ts
  /\ \E n \in 1..Len(events) :
       /\ events[n].uid \notin {"", sessions[1].user_id}
       /\ StopMarker(events[n])

\* the events of the batch at timestamp ts that belong to user uid, in batch order
AtTs(seq, uid, ts) == SelectSeq(seq, LAMBDA e : e.uid = uid /\ e.timestamp = ts)

\* C13: the events attached to a session are the events of its user with
\* start_ts <= timestamp <= end_ts, each as often as in the batch, in ascending
\* timestamp order, equal timestamps in batch order; no other event is attached
C13_AttachedEvents ==
  \A a \in 1..Len(sessions) :
    LET s == sessions[a]
    IN /\ \A e \in BatchEvents :
            Count(s.events, e) =
              IF e.uid = s.user_id /\ s.start_ts <= e.timestamp /\ e.timestamp <= s.end_ts
              THEN Count(events, e) ELSE 0
       /\ \A n \in 1..Len(s.events) : s.events[n] \in BatchEvents
       /\ \A n \in 1..(Len(s.events) - 1) :
            s.events[n].timestamp <= s.events[n + 1].timestamp
       /\ \A ts \in s.start_ts..s.end_ts :
            AtTs(s.events, s.user_id, ts) = AtTs(events, s.user_id, ts)

\* C13 witness: a session holding two different events of one timestamp, in a
\* batch with an event of another user inside the session's window
C13_Witness ==
  /\ bpc = "returned"
  /\ Len(sessions) = 1
  /\ Len(sessions[1].events) = 2
  /\ sessions[1].events[1].timestamp = sessions[1].events[2].timestamp
  /\ sessions[1].events[1] # sessions[1].events[2]
  /\ \E n \in 1..Len(events) :
       /\ events[n].uid # sessions[1].user_id
       /\ sessions[1].start_ts <= events[n].timestamp
       /\ events[n].timestamp <= sessions[1].end_ts

\* the scan position is within stop_events, and every stop marker before it is
\* at or before the init handled last or ended a session
ScanPositionOk ==
  /\ stop_idx \in 0..Len(stop_events)
  /\ Len(used_stop) >= 1 =>
       \A n \in 1..stop_idx :
         \/ stop_events[n].timestamp <= da_inits[Len(used_stop)].timestamp
         \/ \E k \in 1..Len(used_stop) : used_stop[k] = n
  /\ Len(used_stop) = 0 => stop_idx = 0

\* C14: within one user's scan stop_idx never decreases from one init to the
\* next, never exceeds the number of stop markers, and every stop marker
\* before it is at or before the current init or was used as an end boundary
C14_ScanPosition ==
  /\ [](ScanPositionOk)
  /\ [][InitStep => stop_idx' >= stop_idx]_vars

\* C14 witness: after one init the scan position is past two stop markers, the
\* first at or before the init, the second used as the session's end boundary
C14_Witness ==
  /\ Len(used_stop) = 1
  /\ Len(stop_events) = 2
  /\ stop_idx = 2
  /\ used_stop[1] = 2
  /\ stop_events[1].timestamp <= da_inits[1].timestamp

\* the end of the k-th session as the naive definition gives it: every stop
\* marker of the user is looked at again for every init
NaiveStops(k) ==
  {stop_events[n].timestamp : n \in {m \in 1..Len(stop_events) :
      stop_events[m].timestamp > da_inits[k].timestamp}}

NaiveEnd(k) ==
  LET b == (IF k < Len(da_inits) THEN {da_inits[k + 1].timestamp} ELSE {}) \cup NaiveStops(k)
  IN IF b # {} THEN SetMin(b) ELSE evs[Len(evs)].timestamp

\* C17: the end_ts computed with the never-rewound stop_idx is the one the
\* naive definition gives: the earlier of the next init and the smallest stop
\* marker timestamp strictly after the init, else the user's last event
C17_MergeIsNaive ==
  \A k \in 1..Len(used_stop) : SessionOf(k).end_ts = NaiveEnd(k)

\* C17 witness: the scan passed a stale stop marker at the first init and was
\* not rewound for the second; both sessions end without a stop marker
C17_Witness ==
  /\ Len(used_stop) = 2
  /\ used_stop = <<0, 0>>
  /\ Len(stop_events) = 1
  /\ stop_idx = 1

\* C19: in init order a session ends at or before the start of the user's next
\* session, and a session that is not the user's last ends at a marker (the
\* next init or a stop marker after its init), never by the fallback to the
\* user's last event
C19_SessionsInOrder ==
  /\ \A k \in 1..(Len(used_stop) - 1) :
       SessionOf(k).end_ts <= SessionOf(k + 1).start_ts
  /\ \A k \in 1..Len(used_stop) :
       /\ SessionOf(k).start_ts = da_inits[k].timestamp
       /\ k < Len(da_inits) =>
            /\ SessionOf(k).end_ts <= da_inits[k + 1].timestamp
            /\ SessionOf(k).end_ts \in Boundaries(k)

\* C19 witness: three sessions of one user, each ending where the next starts,
\* the last one open
C19_Witness ==
  /\ Len(used_stop) = 3
  /\ SessionOf(1).start_ts < SessionOf(2).start_ts
  /\ SessionOf(2).start_ts < SessionOf(3).start_ts
  /\ SessionOf(1).end_ts = SessionOf(2).start_ts
  /\ SessionOf(2).end_ts = SessionOf(3).start_ts
  /\ used_stop[3] = 0

\* the actions process_session gives an effect to
Vocabulary ==
  {"step_over", "step_in", "step_out", "stop", "continue", "set_breakpoints",
   "select_frame", "pause", "reverse_continue", "step_back", "expand_variable",
   "evaluate"}

\* the body is no activity record, or its action is outside the vocabulary
NoContribution(body) ==
  \/ body.head # ActivityHead
  \/ body.action = ""
  \/ body.action \notin Vocabulary

\* C15: an event whose body is no activity record (the init marker and the
\* "API server stopped" marker among them), or whose action is not in the
\* vocabulary (debug_session_stopped among them), changes no counter, no
\* duration list and no open-interval state
C15_NoContribution ==
  (Handled /\ NoContribution(Ev.body)) =>
    /\ Counters(After) = Counters(before)
    /\ After.signal_count = before.signal_count
    /\ Stepping(After) = Stepping(before)
    /\ Pausing(After) = Pausing(before)

\* C15 witness: a debug_session_stopped marker was handled while a pause
\* interval opened by an earlier adapter stop was open, and left it open
C15_Witness ==
  /\ Handled
  /\ Ev.body = SessionStoppedBody
  /\ before.is_paused
  /\ After.is_paused
  /\ After.pause_durations = <<>>
  /\ Ev.timestamp > before.last_pause_ts

\* C16: a pause action adds one to pause_count and changes neither interval
\* nor a duration list; a pause interval is opened only by an adapter stop and
\* closed only by an adapter continue or a step action
C16_PauseEffect ==
  /\ (Handled /\ EvAction = "pause") =>
       /\ After.pause_count = before.pause_count + 1
       /\ Stepping(After) = Stepping(before)
       /\ Pausing(After) = Pausing(before)
  /\ (Handled /\ ~before.is_paused /\ After.is_paused) =>
       (Ev.body.action = "stop" /\ Ev.svc = "ddb-da")
  /\ (Handled /\ before.is_paused /\ ~After.is_paused) =>
       \/ Ev.body.action = "continue" /\ Ev.svc = "ddb-da"
       \/ Ev.body.action \in {"step_over", "step_in", "step_out"}
  /\ (Handled /\ After.pause_durations # before.pause_durations) =>
       (before.is_paused /\ ~After.is_paused)

\* C16 witness: a pause action was handled while a pause interval was open;
\* the interval is still open with its timestamp, and pause_count is 1
C16_Witness ==
  /\ Handled
  /\ EvAction = "pause"
  /\ before.is_paused
  /\ After.is_paused
  /\ After.last_pause_ts = before.last_pause_ts
  /\ Ev.timestamp > before.last_pause_ts
  /\ After.pause_count = 1
  /\ After.pause_durations = <<>>

\* the adapter stop actions among the first n events of a list
AdapterStops(evts, n) ==
  Cardinality({m \in 1..n :
     /\ evts[m].body.head = ActivityHead
     /\ evts[m].body.action = "stop"
     /\ evts[m].svc = "ddb-da"})

\* C20: during and after a run of process_session on a new session, every
\* entry of step_durations and pause_durations is non-negative, there are at
\* most step_count step durations, and at most as many pause durations as
\* adapter stop actions handled
C20_DurationBounds ==
  ((runs = 0 /\ ppc = "loop") \/ Returned(1)) =>
    /\ \A n \in 1..Len(After.step_durations) : After.step_durations[n] >= 0
    /\ \A n \in 1..Len(After.pause_durations) : After.pause_durations[n] >= 0
    /\ Len(After.step_durations) <= After.step_count
    /\ Len(After.pause_durations) <=
         AdapterStops(After.events, IF ppc = "loop" THEN pos - 1 ELSE Len(After.events))

\* C20 witness: a run has returned with one step duration for one step and no
\* pause duration for the one adapter stop, whose pause interval is still open
C20_Witness ==
  /\ Returned(1)
  /\ After.step_count = 1
  /\ Len(After.step_durations) = 1
  /\ After.step_durations[1] > 0
  /\ After.is_paused
  /\ AdapterStops(After.events, Len(After.events)) = 1
  /\ After.pause_durations = <<>>

\* ------------------------------------------------------------------- main
\* (user.id, service.name, body) of the events of a batch that main builds
\* sessions from and then interprets
MainKinds ==
  { <<"u1", "ddb-da", InitBody>>,
    <<"u1", "ddb-ext", SessionStoppedBody>>,
    <<"u1", "ddb-da", Activity("step_over", <<>>)>>,
    <<"u1", "ddb-da", Activity("stop", <<<<"reason", "end-stepping-range">>>>)>>,
    <<"u1", "ddb-da", Activity("continue", <<>>)>> }

MainEvents ==
  { Event(ts, k[1], k[2], k[3]) : ts \in Timestamps, k \in MainKinds }

\* the timestamps of m events written in the order of their time
Chronological(m) ==
  { ts \in [1..m -> Timestamps] : \A n \in 1..(m - 1) : ts[n] <= ts[n + 1] }

\* (user.id, service.name, body) of the events that follow the initialization
\* marker in the log of one debug session
LogKinds == { k \in MainKinds : k[3] # InitBody }

\* the log of one debug session: its initialization marker, then the events
\* ks at the timestamps ts, written in the order of time; events of equal
\* time come in every order
MainLog(ts, ks) ==
  [n \in 1..Len(ts) |->
     IF n = 1 THEN Event(ts[1], "u1", "ddb-da", InitBody)
     ELSE Event(ts[n], ks[n - 1][1], ks[n - 1][2], ks[n - 1][3])]

\* the batches main loads: any events in any order up to MaxEvents of them,
\* and the longer logs of one debug session up to MaxBatch events
InitMain ==
  /\ \/ events \in SeqsUpTo(MainEvents, MaxEvents)
     \/ \E m \in (MaxEvents + 1)..MaxBatch :
          \E ts \in Chronological(m), ks \in [1..(m - 1) -> LogKinds] :
            events = MainLog(ts, ks)
  /\ bpc = "group"
  /\ user_order = <<>>
  /\ u = 0
  /\ evs = <<>>
  /\ da_inits = <<>>
  /\ stop_events = <<>>
  /\ i = 0
  /\ stop_idx = 0
  /\ used_stop = <<>>
  /\ sessions = <<>>
  /\ ppc = "idle"
  /\ cur = 0
  /\ pos = 0
  /\ runs = 0
  /\ before = NoSession
  /\ first_run = NoSession

\* lines 250-252: process_session on every session built
MainProcess ==
  /\ bpc = "returned"
  /\ sessions' = [a \in 1..Len(sessions) |-> ProcessSession(sessions[a])]
  /\ bpc' = "processed"
  /\ UNCHANGED <<events, user_order, u, evs, da_inits, stop_events, i, stop_idx,
                 used_stop>>
  /\ UNCHANGED interp_vars

NextMain == GroupEvents \/ ScanUser \/ InitStep \/ Return \/ MainProcess

SpecMain == InitMain /\ [][NextMain]_vars

RECURSIVE Sum(_)
Sum(seq) == IF seq = <<>> THEN 0 ELSE seq[Len(seq)] + Sum(SubSeq(seq, 1, Len(seq) - 1))

\* C18: for a session built by build_debug_sessions and then interpreted, the
\* pause durations add up to at most end_ts - start_ts, and so do the step
\* durations; no duration is negative, so the completed intervals of one kind
\* fit side by side in the session's window
C18_DurationsWithinWindow ==
  bpc = "processed" =>
    \A a \in 1..Len(sessions) :
      /\ Sum(sessions[a].pause_durations) <= sessions[a].end_ts - sessions[a].start_ts
      /\ Sum(sessions[a].step_durations) <= sessions[a].end_ts - sessions[a].start_ts
      /\ \A n \in 1..Len(sessions[a].pause_durations) : sessions[a].pause_durations[n] >= 0
      /\ \A n \in 1..Len(sessions[a].step_durations) : sessions[a].step_durations[n] >= 0

\* C18 witness: an interpreted session of five events, its init and twice an
\* adapter stop with a later adapter continue: two completed pause intervals
\* that together fill the session's window
C18_Witness ==
  /\ bpc = "processed"
  /\ Len(sessions) = 1
  /\ Len(sessions[1].events) = 5
  /\ sessions[1].continue_count = 2
  /\ Len(sessions[1].pause_durations) = 2
  /\ sessions[1].pause_durations[1] > 0
  /\ sessions[1].pause_durations[2] > 0
  /\ Sum(sessions[1].pause_durations) = sessions[1].end_ts - sessions[1].start_ts

\* C18 witness of the other list: an interpreted session with two completed
\* stepping intervals that together fill the session's window
C18_StepWitness ==
  /\ bpc = "processed"
  /\ Len(sessions) = 1
  /\ Len(sessions[1].step_durations) = 2
  /\ sessions[1].step_durations[1] > 0
  /\ sessions[1].step_durations[2] > 0
  /\ Sum(sessions[1].step_durations) = sessions[1].end_ts - sessions[1].start_ts

====
